---- MODULE Spec2Model ----
(***************************************************************************)
(* Model of the Slipless backend (src/index.js): an Express application    *)
(* whose routes delegate to one SolanaService object, which in turn calls  *)
(* the Solana SDK.  The file holds two versions of the server: the first   *)
(* at lines 1-390 (guarded construction, transfer hook, global error       *)
(* handler) and the second at lines 392-653.  `version` selects which of   *)
(* the two programs runs.                                                  *)
(*                                                                         *)
(* A request is one slot of `reqs`.  An action is one uninterrupted run of *)
(* JavaScript: from the arrival of the request (or from the settlement of  *)
(* the awaited SDK promise) up to the next `await` or to the response.     *)
(* The SDK is the environment: every awaited call either resolves or       *)
(* rejects with the SDK's error message.                                   *)
(***************************************************************************)
EXTENDS Integers, Sequences, FiniteSets, TLC

VARIABLES version, env, server, solanaService, reqs, chainMints, chainMetaLists

vars == <<version, env, server, solanaService, reqs, chainMints, chainMetaLists>>

(* ---------------------------- bounds ----------------------------------- *)
MaxReq == 2      \* requests that may be in flight together
MaxItems == 2    \* token accounts / signatures the SDK returns for one owner

ReqIds == 1..MaxReq

(* ---------------------------- inputs ----------------------------------- *)
Versions == {1, 2}
EnvValues == {"unset", "malformed", "valid"}     \* SERVER_WALLET_SECRET_KEY
Addresses == {"Addr1", "notAKey"}                \* what a client may send as a key

(* new PublicKey(x): web3.js accepts a base58 32-byte key and throws otherwise *)
IsValidKey(a) == a = "Addr1"

(* error messages are strings; a message is the sequence of the pieces it  *)
(* was concatenated from, so that `'prefix' + e.message` is \o             *)
PublicKeyErrorMessage == <<"Invalid public key input">>
RpcErrorMessage == <<"rpc failed">>
InvalidKeyPrefix == <<"Invalid public key input: ">>
NotInitializedMessage == <<"Backend service not initialized.">>
KeyNotSetMessage == <<"SERVER_WALLET_SECRET_KEY not set.">>
SomethingBroke == <<"Something broke!">>

(* ---------------------------- responses -------------------------------- *)
NoResp == [status |-> 0, type |-> "none", by |-> "none", body |-> [none |-> TRUE]]

(* res.json(body): status 200 unless res.status() was called *)
Json(status, body) == [status |-> status, type |-> "json", by |-> "route", body |-> body]

(* a catch block that drops the success field *)
ErrorJson_NoSuccess(message) == Json(500, [error |-> message])

(* the catch block of the six service routes *)
ErrorJson(message) == Json(500, [success |-> FALSE, error |-> message])

(* the `if (!solanaService) return res.status(500).json(...)` guard *)
NotInitializedJson == Json(500, [success |-> FALSE, error |-> NotInitializedMessage])

(* app.use((err, req, res, next) => res.status(500).send('Something broke!')) *)
GlobalErrorHandler == [status |-> 500, type |-> "text", by |-> "globalErrorHandler",
                       body |-> [text |-> SomethingBroke]]

(* the second version registers no error middleware: Express' own final    *)
(* handler answers with the status of body-parser's error (400) and HTML   *)
ExpressFinalHandler == [status |-> 400, type |-> "html", by |-> "expressFinalHandler",
                        body |-> [text |-> <<"SyntaxError">>]]

(* ---------------------------- start-up --------------------------------- *)
Undefined == [defined |-> FALSE, connection |-> "none", program |-> "none"]

(* SolanaService.constructor: throws when the key is missing or unparsable *)
ConstructorThrows(v, e) == e # "valid"

Constructed == [defined |-> TRUE, connection |-> "connection", program |-> "program"]

(* version 1 catches the constructor's error and leaves solanaService      *)
(* undefined; version 2 does not, and the module fails to load             *)
InitService(v, e) == IF ConstructorThrows(v, e) THEN Undefined ELSE Constructed

InitServer(v, e) == IF v = 2 /\ ConstructorThrows(v, e) THEN "crashed" ELSE "running"

(* ---------------------------- requests --------------------------------- *)
IdleReq == [pc |-> "idle", route |-> "none", a1 |-> "none", a2 |-> "none",
            malformed |-> FALSE, calls |-> <<>>, sdkError |-> <<>>, failedAt |-> -1,
            n |-> 0, list |-> <<>>, resp |-> NoResp, nresp |-> 0]

Arrive(route, a1, a2, malformed) ==
    [IdleReq EXCEPT !.route = route, !.a1 = a1, !.a2 = a2, !.malformed = malformed]

(* res.json / res.send: the request is answered *)
Respond(q, resp) == [q EXCEPT !.pc = "done", !.resp = resp, !.nresp = @ + 1]

(* the handler issues an SDK call and awaits it *)
Await(q, label, op) == [q EXCEPT !.pc = label, !.calls = Append(@, op)]

(* an SDK call threw `message`: remember it and how many awaited calls had *)
(* been issued by then                                                     *)
Thrown(q, message) == [q EXCEPT !.sdkError = message, !.failedAt = Len(q.calls)]

TypeOK ==
    /\ version \in Versions
    /\ env \in EnvValues
    /\ server \in {"running", "crashed"}
    /\ solanaService \in {Undefined, Constructed}
    /\ DOMAIN reqs = ReqIds
    /\ chainMints \subseteq ReqIds
    /\ chainMetaLists \subseteq ReqIds

Init ==
    /\ version \in Versions
    /\ env \in EnvValues
    /\ server = InitServer(version, env)
    /\ solanaService = InitService(version, env)
    /\ reqs = [r \in ReqIds |-> IdleReq]
    /\ chainMints = {}
    /\ chainMetaLists = {}

(* ---------------------------- middleware ------------------------------- *)
(* app.use(bodyParser.json()): a body that does not parse makes body-parser *)
(* call next(err); Express then skips every route and runs the error       *)
(* middleware: the global handler in version 1, its own final handler in   *)
(* version 2                                                               *)
ErrorMiddleware(v) == IF v = 1 THEN GlobalErrorHandler ELSE ExpressFinalHandler

(* a parser that lets every body through *)
BodyParser_Lenient(v, q, handled) == handled

BodyParser(v, q, handled) ==
    IF q.malformed THEN Respond(q, ErrorMiddleware(v)) ELSE handled

(* routes without the guard *)
ServiceMissing_NoGuard(v, svc) == FALSE

(* `if (!solanaService) return ...`: only version 1 has the guard; in      *)
(* version 2 the server runs only if the constructor returned              *)
ServiceMissing(v, svc) == v = 1 /\ ~svc.defined

(* ---------------------------- route handlers --------------------------- *)
(* a catch block that hides the error behind a generic message *)
RouteCatch_Generic(q, message) == Respond(q, ErrorJson(<<"Internal server error">>))

(* the catch block of a route: the error's message goes out as it is *)
RouteCatch(q, message) == Respond(q, ErrorJson(message))

(* a guard that answers but does not return: the handler goes on, the     *)
(* call on the undefined service throws and the catch answers again        *)
CreateTokenHandler_NoReturn(v, svc, q) ==
    IF ServiceMissing(v, svc)
    THEN RouteCatch(Respond(q, NotInitializedJson), <<"TypeError">>)
    ELSE Await(q, "ct_rent", "getMinimumBalanceForRentExemption")

(* POST /api/create-token, up to the first await of createTokenMint *)
CreateTokenHandler(v, svc, q) ==
    IF ServiceMissing(v, svc) THEN Respond(q, NotInitializedJson)
    ELSE Await(q, "ct_rent", "getMinimumBalanceForRentExemption")

(* the message issueBadge throws for a key that new PublicKey() rejects:   *)
(* version 1 wraps it, version 2 lets the SDK's error through              *)
IssueBadgeKeyError(v, message) == IF v = 1 THEN InvalidKeyPrefix \o message ELSE message

(* issueBadge that parses only the key it uses, the recipient's *)
IssueBadgeHandler_RecipientOnly(v, svc, q) ==
    IF ServiceMissing(v, svc) THEN Respond(q, NotInitializedJson)
    ELSE IF ~IsValidKey(q.a2)
         THEN RouteCatch(Thrown(q, PublicKeyErrorMessage),
                         IssueBadgeKeyError(v, PublicKeyErrorMessage))
         ELSE Await(q, "ib_rpc", "issueBadge.rpc")

(* POST /api/issue-badge, up to the await of issueBadge().rpc() *)
IssueBadgeHandler(v, svc, q) ==
    IF ServiceMissing(v, svc) THEN Respond(q, NotInitializedJson)
    ELSE IF ~IsValidKey(q.a1) \/ ~IsValidKey(q.a2)
         THEN RouteCatch(Thrown(q, PublicKeyErrorMessage),
                         IssueBadgeKeyError(v, PublicKeyErrorMessage))
         ELSE Await(q, "ib_rpc", "issueBadge.rpc")

(* POST /api/transfer, up to the first await of transferTokens *)
TransferHandler(v, svc, q) ==
    IF ServiceMissing(v, svc) THEN Respond(q, NotInitializedJson)
    ELSE IF ~IsValidKey(q.a1) \/ ~IsValidKey(q.a2)
         THEN RouteCatch(Thrown(q, PublicKeyErrorMessage), PublicKeyErrorMessage)
         ELSE Await(q, "tr_src", "getOrCreateAssociatedTokenAccount")

(* GET /api/token-balances, up to the await of getTokenAccountsByOwner *)
TokenBalancesHandler(v, svc, q) ==
    IF ServiceMissing(v, svc) THEN Respond(q, NotInitializedJson)
    ELSE IF ~IsValidKey(q.a1)
         THEN RouteCatch(Thrown(q, PublicKeyErrorMessage), PublicKeyErrorMessage)
         ELSE Await(q, "tb_list", "getTokenAccountsByOwner")

(* GET /api/transactions and GET /api/server-wallet-transactions (which    *)
(* passes the server wallet's own key), up to getSignaturesForAddress      *)
TransactionsHandler(v, svc, q) ==
    IF ServiceMissing(v, svc) THEN Respond(q, NotInitializedJson)
    ELSE IF ~IsValidKey(q.a1)
         THEN RouteCatch(Thrown(q, PublicKeyErrorMessage), PublicKeyErrorMessage)
         ELSE Await(q, "tx_sigs", "getSignaturesForAddress")

(* GET /api/health (GET /health in version 2) *)
HealthHandler(q) == Respond(q, Json(200, [status |-> "OK"]))

(* the catch block of wallet-status *)
WalletStatusCatch(q, message) ==
    Respond(q, Json(500, [connected |-> FALSE, error |-> message]))

(* GET /api/wallet-status: version 1 awaits the balance, version 2 answers *)
(* at once                                                                 *)
WalletStatusHandler(v, svc, e, q) ==
    IF ServiceMissing(v, svc)
    THEN Respond(q, Json(500, [connected |-> FALSE, error |-> NotInitializedMessage]))
    ELSE IF e = "unset"
         THEN Respond(q, Json(200, [connected |-> FALSE, message |-> KeyNotSetMessage]))
         ELSE IF e = "malformed"
              THEN WalletStatusCatch(q, <<"Unexpected token">>)
              ELSE IF v = 1
                   THEN Await(q, "ws_bal", "getBalance")
                   ELSE Respond(q, Json(200, [connected |-> TRUE, publicKey |-> "serverWallet"]))

(* GET /api/program-info *)
ProgramInfoHandler(v, svc, q) ==
    IF ServiceMissing(v, svc)
    THEN Respond(q, Json(500, [error |-> NotInitializedMessage]))
    ELSE Respond(q, Json(200, [rpcEndpoint |-> "RPC_ENDPOINT",
                               transferHookProgramId |-> "TRANSFER_HOOK_PROGRAM_ID"]))

(* ---------------------------- service methods -------------------------- *)
(* An awaited SDK call settles; `ok` is whether it resolved.  Each operator *)
(* gives the request after the code ran on to its next await or response.  *)

(* createTokenMint with a retry of the failed call *)
CreateTokenMintStep_Retry(v, q, r, ok) ==
    IF ~ok THEN Await(q, q.pc, q.calls[Len(q.calls)])
    ELSE IF q.pc = "ct_rent" THEN Await(q, "ct_send", "sendAndConfirm")
    ELSE IF q.pc = "ct_send" /\ v = 1
         THEN Await(q, "ct_meta", "initializeExtraAccountMetaList.rpc")
    ELSE Respond(q, Json(200, [success |-> TRUE, mintAddress |-> r]))

(* createTokenMint that submits both transactions without waiting for the *)
(* first to be confirmed: the mint's failure goes unnoticed                *)
CreateTokenMintStep_NoWait(v, q, r, ok) ==
    IF q.pc = "ct_send" /\ v = 1
    THEN Await(q, "ct_meta", "initializeExtraAccountMetaList.rpc")
    ELSE IF ~ok THEN RouteCatch(Thrown(q, RpcErrorMessage), RpcErrorMessage)
    ELSE IF q.pc = "ct_rent" THEN Await(q, "ct_send", "sendAndConfirm")
    ELSE Respond(q, Json(200, [success |-> TRUE, mintAddress |-> r]))

(* SolanaService.createTokenMint and the rest of POST /api/create-token.   *)
(* The mint keypair is fresh per call: the request's id stands for it.     *)
CreateTokenMintStep(v, q, r, ok) ==
    IF ~ok THEN RouteCatch(Thrown(q, RpcErrorMessage), RpcErrorMessage)
    ELSE IF q.pc = "ct_rent" THEN Await(q, "ct_send", "sendAndConfirm")
    ELSE IF q.pc = "ct_send" /\ v = 1
         THEN Await(q, "ct_meta", "initializeExtraAccountMetaList.rpc")
    ELSE Respond(q, Json(200, [success |-> TRUE, mintAddress |-> r]))

(* SolanaService.issueBadge after the rpc, and the rest of the route *)
IssueBadgeStep(q, ok) ==
    IF ~ok THEN RouteCatch(Thrown(q, RpcErrorMessage), RpcErrorMessage)
    ELSE Respond(q, Json(200, [success |-> TRUE]))

(* SolanaService.transferTokens: version 1 builds the hook instruction and *)
(* sends it with sendAndConfirm, version 2 calls spl-token's transfer      *)
TransferTokensStep(v, q, ok) ==
    IF ~ok THEN RouteCatch(Thrown(q, RpcErrorMessage), RpcErrorMessage)
    ELSE IF q.pc = "tr_src" THEN Await(q, "tr_dst", "getOrCreateAssociatedTokenAccount")
    ELSE IF q.pc = "tr_dst" /\ v = 1
         THEN Await(q, "tr_ix", "createTransferCheckedWithTransferHookInstruction")
    ELSE IF q.pc = "tr_dst" THEN Await(q, "tr_send", "transfer")
    ELSE IF q.pc = "tr_ix" THEN Await(q, "tr_send", "sendAndConfirm")
    ELSE Respond(q, Json(200, [success |-> TRUE]))

(* one entry of the balances list *)
Balance == [mint |-> "mint", amount |-> 1, decimals |-> 9,
            isTransferHookEnabled |-> TRUE, symbol |-> ""]

(* getTokenBalances that answers with what it has when an account fails *)
GetTokenBalancesStep_Partial(q, ok, n) ==
    IF ~ok THEN Respond(Thrown(q, RpcErrorMessage),
                        Json(200, [success |-> TRUE, balances |-> q.list]))
    ELSE IF q.pc = "tb_list"
         THEN IF n = 0 THEN Respond(q, Json(200, [success |-> TRUE, balances |-> <<>>]))
              ELSE Await([q EXCEPT !.n = n], "tb_acct", "getAccount")
    ELSE IF q.pc = "tb_acct" THEN Await(q, "tb_mint", "getMint")
    ELSE LET pushed == [q EXCEPT !.list = Append(@, Balance)]
         IN  IF Len(pushed.list) = q.n
             THEN Respond(pushed, Json(200, [success |-> TRUE, balances |-> pushed.list]))
             ELSE Await(pushed, "tb_acct", "getAccount")

(* SolanaService.getTokenBalances: `n` is the number of token accounts     *)
(* getTokenAccountsByOwner returned; the loop awaits getAccount and        *)
(* getMint for each, then pushes                                           *)
GetTokenBalancesStep(q, ok, n) ==
    IF ~ok THEN RouteCatch(Thrown(q, RpcErrorMessage), RpcErrorMessage)
    ELSE IF q.pc = "tb_list"
         THEN IF n = 0 THEN Respond(q, Json(200, [success |-> TRUE, balances |-> <<>>]))
              ELSE Await([q EXCEPT !.n = n], "tb_acct", "getAccount")
    ELSE IF q.pc = "tb_acct" THEN Await(q, "tb_mint", "getMint")
    ELSE LET pushed == [q EXCEPT !.list = Append(@, Balance)]
         IN  IF Len(pushed.list) = q.n
             THEN Respond(pushed, Json(200, [success |-> TRUE, balances |-> pushed.list]))
             ELSE Await(pushed, "tb_acct", "getAccount")

(* one entry of the transactions list *)
TransactionEntry == [signature |-> "sig", status |-> "confirmed",
                     type |-> "Unknown", description |-> ""]

(* SolanaService.getTransactions: `n` is the number of signatures          *)
(* getSignaturesForAddress returned; `tx` is whether getTransaction found  *)
(* the transaction (a null one is skipped)                                 *)
GetTransactionsStep(q, ok, n, tx) ==
    IF ~ok THEN RouteCatch(Thrown(q, RpcErrorMessage), RpcErrorMessage)
    ELSE IF q.pc = "tx_sigs"
         THEN IF n = 0 THEN Respond(q, Json(200, [success |-> TRUE, transactions |-> <<>>]))
              ELSE Await([q EXCEPT !.n = n], "tx_get", "getTransaction")
    ELSE LET pushed == IF tx THEN [q EXCEPT !.list = Append(@, TransactionEntry)] ELSE q
         IN  IF Len(q.calls) - 1 = q.n
             THEN Respond(pushed, Json(200, [success |-> TRUE, transactions |-> pushed.list]))
             ELSE Await(pushed, "tx_get", "getTransaction")

(* SolanaService.getServerWalletBalance and the rest of wallet-status      *)
(* (version 1)                                                             *)
GetServerWalletBalanceStep(q, ok) ==
    IF ~ok THEN WalletStatusCatch(Thrown(q, RpcErrorMessage), RpcErrorMessage)
    ELSE Respond(q, Json(200, [connected |-> TRUE, publicKey |-> "serverWallet",
                               balance |-> 1]))

(* ---------------------------- the ledger ------------------------------- *)
(* what a confirmed transaction leaves on chain: the mint account after    *)
(* createTokenMint's sendAndConfirm, its extra-account-meta list after the *)
(* initializeExtraAccountMetaList rpc                                      *)
MintsAfter(q, r, ok, mints) ==
    IF ok /\ q.pc = "ct_send" THEN mints \cup {r} ELSE mints

MetaListsAfter(q, r, ok, metas) ==
    IF ok /\ q.pc = "ct_meta" THEN metas \cup {r} ELSE metas

(* ---------------------------- actions ---------------------------------- *)
(* a handler that drops the service object *)
Static_Reset == UNCHANGED <<version, env, server>> /\ solanaService' = Undefined

(* no handler and no service method assigns solanaService or its fields *)
Static == UNCHANGED <<version, env, server, solanaService>>

Ledger == UNCHANGED <<chainMints, chainMetaLists>>

Accepting(r) == server = "running" /\ reqs[r].pc = "idle"

(* `m` is whether the request carries a JSON body that does not parse; the *)
(* GET requests carry no body, and body-parser leaves them alone           *)

PostCreateToken(r) ==
    /\ Accepting(r)
    /\ \E m \in BOOLEAN :
         LET q == Arrive("create-token", "none", "none", m)
         IN  reqs' = [reqs EXCEPT ![r] =
                         BodyParser(version, q, CreateTokenHandler(version, solanaService, q))]
    /\ Static /\ Ledger

PostIssueBadge(r) ==
    /\ Accepting(r)
    /\ \E m \in BOOLEAN, a1 \in Addresses, a2 \in Addresses :
         LET q == Arrive("issue-badge", a1, a2, m)
         IN  reqs' = [reqs EXCEPT ![r] =
                         BodyParser(version, q, IssueBadgeHandler(version, solanaService, q))]
    /\ Static /\ Ledger

PostTransfer(r) ==
    /\ Accepting(r)
    /\ \E m \in BOOLEAN, a1 \in Addresses, a2 \in Addresses :
         LET q == Arrive("transfer", a1, a2, m)
         IN  reqs' = [reqs EXCEPT ![r] =
                         BodyParser(version, q, TransferHandler(version, solanaService, q))]
    /\ Static /\ Ledger

GetTokenBalances(r) ==
    /\ Accepting(r)
    /\ \E m \in {FALSE}, a1 \in Addresses :
         LET q == Arrive("token-balances", a1, "none", m)
         IN  reqs' = [reqs EXCEPT ![r] =
                         BodyParser(version, q, TokenBalancesHandler(version, solanaService, q))]
    /\ Static /\ Ledger

GetTransactions(r) ==
    /\ Accepting(r)
    /\ \E m \in {FALSE}, a1 \in Addresses :
         LET q == Arrive("transactions", a1, "none", m)
         IN  reqs' = [reqs EXCEPT ![r] =
                         BodyParser(version, q, TransactionsHandler(version, solanaService, q))]
    /\ Static /\ Ledger

(* version 2 has no such route *)
GetServerWalletTransactions(r) ==
    /\ Accepting(r)
    /\ version = 1
    /\ \E m \in {FALSE} :
         LET q == Arrive("server-wallet-transactions", "Addr1", "none", m)
         IN  reqs' = [reqs EXCEPT ![r] =
                         BodyParser(version, q, TransactionsHandler(version, solanaService, q))]
    /\ Static /\ Ledger

GetHealth(r) ==
    /\ Accepting(r)
    /\ \E m \in {FALSE} :
         LET q == Arrive("health", "none", "none", m)
         IN  reqs' = [reqs EXCEPT ![r] = BodyParser(version, q, HealthHandler(q))]
    /\ Static /\ Ledger

GetWalletStatus(r) ==
    /\ Accepting(r)
    /\ \E m \in {FALSE} :
         LET q == Arrive("wallet-status", "none", "none", m)
         IN  reqs' = [reqs EXCEPT ![r] =
                         BodyParser(version, q, WalletStatusHandler(version, solanaService, env, q))]
    /\ Static /\ Ledger

GetProgramInfo(r) ==
    /\ Accepting(r)
    /\ \E m \in {FALSE} :
         LET q == Arrive("program-info", "none", "none", m)
         IN  reqs' = [reqs EXCEPT ![r] =
                         BodyParser(version, q, ProgramInfoHandler(version, solanaService, q))]
    /\ Static /\ Ledger

(* the awaited call of createTokenMint settles *)
createTokenMint(r) ==
    /\ reqs[r].pc \in {"ct_rent", "ct_send", "ct_meta"}
    /\ \E ok \in BOOLEAN :
         /\ reqs' = [reqs EXCEPT ![r] = CreateTokenMintStep(version, reqs[r], r, ok)]
         /\ chainMints' = MintsAfter(reqs[r], r, ok, chainMints)
         /\ chainMetaLists' = MetaListsAfter(reqs[r], r, ok, chainMetaLists)
    /\ Static

issueBadge(r) ==
    /\ reqs[r].pc = "ib_rpc"
    /\ \E ok \in BOOLEAN : reqs' = [reqs EXCEPT ![r] = IssueBadgeStep(reqs[r], ok)]
    /\ Static /\ Ledger

transferTokens(r) ==
    /\ reqs[r].pc \in {"tr_src", "tr_dst", "tr_ix", "tr_send"}
    /\ \E ok \in BOOLEAN : reqs' = [reqs EXCEPT ![r] = TransferTokensStep(version, reqs[r], ok)]
    /\ Static /\ Ledger

getTokenBalances(r) ==
    /\ reqs[r].pc \in {"tb_list", "tb_acct", "tb_mint"}
    /\ \E ok \in BOOLEAN, n \in 0..MaxItems :
         /\ reqs[r].pc # "tb_list" => n = 0
         /\ reqs' = [reqs EXCEPT ![r] = GetTokenBalancesStep(reqs[r], ok, n)]
    /\ Static /\ Ledger

getTransactions(r) ==
    /\ reqs[r].pc \in {"tx_sigs", "tx_get"}
    /\ \E ok \in BOOLEAN, n \in 0..MaxItems, tx \in BOOLEAN :
         /\ reqs[r].pc # "tx_sigs" => n = 0
         /\ reqs' = [reqs EXCEPT ![r] = GetTransactionsStep(reqs[r], ok, n, tx)]
    /\ Static /\ Ledger

getServerWalletBalance(r) ==
    /\ reqs[r].pc = "ws_bal"
    /\ \E ok \in BOOLEAN : reqs' = [reqs EXCEPT ![r] = GetServerWalletBalanceStep(reqs[r], ok)]
    /\ Static /\ Ledger

Next ==
    \E r \in ReqIds :
        \/ PostCreateToken(r)
        \/ PostIssueBadge(r)
        \/ PostTransfer(r)
        \/ GetTokenBalances(r)
        \/ GetTransactions(r)
        \/ GetServerWalletTransactions(r)
        \/ GetHealth(r)
        \/ GetWalletStatus(r)
        \/ GetProgramInfo(r)
        \/ createTokenMint(r)
        \/ issueBadge(r)
        \/ transferTokens(r)
        \/ getTokenBalances(r)
        \/ getTransactions(r)
        \/ getServerWalletBalance(r)

Spec == Init /\ [][Next]_vars

(* ======================================================================= *)
(* Properties                                                              *)
(* ======================================================================= *)
Done(r) == reqs[r].pc = "done"

Resp(r) == reqs[r].resp

Body(r) == reqs[r].resp.body

Has(r, f) == f \in DOMAIN Body(r)

(* the six routes that wrap a SolanaService call in try/catch *)
ServiceRoutes == {"create-token", "issue-badge", "transfer", "token-balances",
                  "transactions", "server-wallet-transactions"}

(* an SDK call threw while the request was handled *)
SdkThrew(r) == reqs[r].sdkError # <<>>

(* the request was turned away by the `!solanaService` guard *)
TurnedAway(r) == ServiceMissing(version, solanaService) /\ ~reqs[r].malformed

(* handling failed: an SDK error, a body that did not parse, or no service *)
Failed(r) == SdkThrew(r) \/ reqs[r].malformed \/ TurnedAway(r)

(* issueBadge rejected one of the two keys *)
BadgeKeyRejected(r) ==
    /\ reqs[r].route = "issue-badge"
    /\ ~IsValidKey(reqs[r].a1) \/ ~IsValidKey(reqs[r].a2)

(* ---- C1 --------------------------------------------------------------- *)
(* C1 as stated, read in its narrowest sense (the failure is an SDK call   *)
(* that threw): on the six service routes the request is answered with     *)
(* status 500 and an error field equal to the SDK error's message,         *)
(* unchanged.                                                              *)
C1_AsStated ==
    \A r \in ReqIds :
        (Done(r) /\ reqs[r].route \in ServiceRoutes /\ SdkThrew(r)) =>
            /\ Resp(r).status = 500
            /\ Has(r, "error")
            /\ Body(r).error = reqs[r].sdkError

(* C1, amended: on the six service routes no failed request gets a 2xx     *)
(* answer; when an SDK call threw, the answer is 500 with the SDK's        *)
(* message unchanged, except that version 1's issueBadge puts              *)
(* 'Invalid public key input: ' before the message of a rejected key; when *)
(* the service is missing the error is 'Backend service not initialized.'; *)
(* when the body did not parse the error middleware answers, not the route.*)
C1_ErrorMessage ==
    \A r \in ReqIds :
        (Done(r) /\ reqs[r].route \in ServiceRoutes /\ Failed(r)) =>
            /\ Resp(r).status \notin 200..299
            /\ SdkThrew(r) =>
                 /\ Resp(r).status = 500
                 /\ Has(r, "error")
                 /\ Body(r).error =
                      IF version = 1 /\ BadgeKeyRejected(r)
                      THEN InvalidKeyPrefix \o reqs[r].sdkError
                      ELSE reqs[r].sdkError
            /\ TurnedAway(r) =>
                 Resp(r).status = 500 /\ Has(r, "error")
                   /\ Body(r).error = NotInitializedMessage
            /\ reqs[r].malformed => Resp(r) = ErrorMiddleware(version)

(* an rpc failure and a rejected key, each answered with the SDK's message *)
C1_Witness ==
    \E r1, r2 \in ReqIds :
        /\ Done(r1) /\ reqs[r1].route = "transfer"
        /\ reqs[r1].sdkError = RpcErrorMessage /\ Body(r1).error = RpcErrorMessage
        /\ Done(r2) /\ reqs[r2].route = "token-balances"
        /\ reqs[r2].sdkError = PublicKeyErrorMessage
        /\ Body(r2).error = PublicKeyErrorMessage

(* ---- C2 --------------------------------------------------------------- *)
Endpoints == {"create-token", "issue-badge", "transfer", "token-balances",
              "transactions", "wallet-status", "program-info", "health"}

SuccessEndpoints == {"create-token", "issue-badge", "transfer", "token-balances",
                     "transactions"}

(* C2 as stated: every one of the eight endpoints answers with a JSON body *)
(* that carries a success field.                                           *)
C2_AsStated ==
    \A r \in ReqIds :
        (Done(r) /\ reqs[r].route \in Endpoints) =>
            Resp(r).type = "json" /\ Has(r, "success")

(* C2, amended: a request that reaches the route handler of create-token,  *)
(* issue-badge, transfer, token-balances or transactions is answered with  *)
(* a JSON body carrying success: true with status 200 when the service     *)
(* call returned, false with status 500 and an error field when it threw   *)
(* (or the service is missing).  wallet-status carries `connected` and no  *)
(* success field; program-info and health carry no success field either.   *)
C2_SuccessField ==
    \A r \in ReqIds :
        (Done(r) /\ ~reqs[r].malformed) =>
            /\ reqs[r].route \in SuccessEndpoints =>
                 /\ Resp(r).type = "json" /\ Has(r, "success")
                 /\ Body(r).success = (~SdkThrew(r) /\ ~TurnedAway(r))
                 /\ Body(r).success => Resp(r).status = 200 /\ ~Has(r, "error")
                 /\ ~Body(r).success => Resp(r).status = 500 /\ Has(r, "error")
            /\ reqs[r].route \in Endpoints \ SuccessEndpoints =>
                 /\ Resp(r).type = "json" /\ ~Has(r, "success")
                 /\ reqs[r].route = "wallet-status" => Has(r, "connected")

(* one request answered success:true and one answered success:false *)
C2_Witness ==
    \E r1, r2 \in ReqIds :
        /\ Done(r1) /\ reqs[r1].route = "create-token"
        /\ Has(r1, "success") /\ Body(r1).success /\ Resp(r1).status = 200
        /\ Done(r2) /\ reqs[r2].route = "transactions" /\ SdkThrew(r2)
        /\ Has(r2, "success") /\ ~Body(r2).success /\ Resp(r2).status = 500

(* ---- C3 --------------------------------------------------------------- *)
(* what a request brought with it *)
OwnParameters(q) == <<q.route, q.a1, q.a2, q.malformed>>

(* what the SDK answered to the calls the request made *)
SdkAnswers(q) == <<q.calls, q.sdkError, q.failedAt, q.n, q.list>>

(* the response without the freshly generated mint key, which is itself an *)
(* answer of the SDK (Keypair.generate)                                    *)
Shape(resp) ==
    [status |-> resp.status, type |-> resp.type, by |-> resp.by,
     fields |-> DOMAIN resp.body,
     body |-> [f \in DOMAIN resp.body \ {"mintAddress"} |-> resp.body[f]]]

Determined ==
    \A r1, r2 \in ReqIds :
        (/\ Done(r1) /\ Done(r2)
         /\ OwnParameters(reqs[r1]) = OwnParameters(reqs[r2])
         /\ SdkAnswers(reqs[r1]) = SdkAnswers(reqs[r2]))
            => Shape(Resp(r1)) = Shape(Resp(r2))

(* C3: no step of any handler or service method changes solanaService (its *)
(* connection and program stay as start-up left them), and under every     *)
(* interleaving two requests with the same parameters and the same SDK     *)
(* answers get the same response.                                          *)
C3_NoSharedState ==
    /\ [][solanaService' = solanaService]_vars
    /\ [](solanaService = InitService(version, env))
    /\ []Determined

(* two requests are in flight together, both past their first SDK call,    *)
(* and the service is the one start-up built                               *)
C3_Witness ==
    /\ solanaService = Constructed
    /\ \E r1, r2 \in ReqIds :
         /\ r1 # r2
         /\ reqs[r1].pc = "ct_send" /\ reqs[r2].pc = "tr_dst"

(* ---- C4 --------------------------------------------------------------- *)
(* C4 as stated: every answered request is answered by its route; none is  *)
(* answered by the global error-handling middleware.                       *)
C4_AsStated ==
    \A r \in ReqIds : Done(r) => Resp(r).by = "route"

(* C4, amended: every error thrown while the route handler runs (by the    *)
(* SolanaService call) is caught by the route's own try/catch and answered *)
(* by that route; a request whose JSON body does not parse never reaches   *)
(* its route and is answered by the error middleware, in version 1 the     *)
(* global handler's plain-text 500 'Something broke!'.                     *)
C4_RouteOrMiddleware ==
    \A r \in ReqIds :
        Done(r) =>
            /\ ~reqs[r].malformed => Resp(r).by = "route"
            /\ SdkThrew(r) => Resp(r).by = "route" /\ Resp(r).status = 500
            /\ reqs[r].malformed =>
                 /\ Resp(r).by # "route"
                 /\ reqs[r].calls = <<>>
                 /\ version = 1 => Resp(r) = GlobalErrorHandler

(* an SDK error answered by the route, a bad body answered by the global   *)
(* handler                                                                 *)
C4_Witness ==
    \E r1, r2 \in ReqIds :
        /\ Done(r1) /\ SdkThrew(r1) /\ Resp(r1).by = "route"
        /\ Done(r2) /\ reqs[r2].malformed /\ Resp(r2) = GlobalErrorHandler

(* ---- C5 --------------------------------------------------------------- *)
(* the calls that submit a transaction *)
SubmittingCalls == {"sendAndConfirm", "issueBadge.rpc",
                    "initializeExtraAccountMetaList.rpc", "transfer"}

Count(calls, op) == Cardinality({i \in 1..Len(calls) : calls[i] = op})

(* C5: within one request every transaction-submitting call is made at     *)
(* most once, and the call that failed is the last call of the request.    *)
C5_NoRetry ==
    \A r \in ReqIds :
        /\ \A op \in SubmittingCalls : Count(reqs[r].calls, op) <= 1
        /\ reqs[r].failedAt >= 0 => Len(reqs[r].calls) = reqs[r].failedAt

(* a submitted transaction failed and the request ended there *)
C5_Witness ==
    \E r \in ReqIds :
        /\ Done(r) /\ reqs[r].failedAt >= 1
        /\ reqs[r].calls[reqs[r].failedAt] \in SubmittingCalls

(* ---- C6 --------------------------------------------------------------- *)
(* C6 as stated: when solanaService is undefined, every answered request   *)
(* to a route other than health has status 500 and the error               *)
(* 'Backend service not initialized.', and made no SDK call.               *)
C6_AsStated ==
    \A r \in ReqIds :
        (~solanaService.defined /\ Done(r) /\ reqs[r].route # "health") =>
            /\ Resp(r).status = 500
            /\ Has(r, "error") /\ Body(r).error = NotInitializedMessage
            /\ reqs[r].calls = <<>>

(* C6, amended: when solanaService is undefined, every request that        *)
(* reaches a route handler other than health's is answered by that handler *)
(* with status 500 and the error 'Backend service not initialized.'; a     *)
(* request whose JSON body does not parse is answered by the global error  *)
(* handler instead; in either case no SDK call is made, and no request is  *)
(* ever left waiting on one.                                               *)
C6_NotInitialized ==
    \A r \in ReqIds :
        ~solanaService.defined =>
            /\ reqs[r].calls = <<>>
            /\ reqs[r].pc \in {"idle", "done"}
            /\ (Done(r) /\ reqs[r].route # "health" /\ ~reqs[r].malformed) =>
                 /\ Resp(r).status = 500 /\ Resp(r).by = "route"
                 /\ Has(r, "error") /\ Body(r).error = NotInitializedMessage
            /\ (Done(r) /\ reqs[r].malformed) => Resp(r) = GlobalErrorHandler

(* with no service, a read route and a write route were both turned away,  *)
(* on a server whose key is unset                                          *)
C6_Witness ==
    /\ ~solanaService.defined
    /\ \E r1, r2 \in ReqIds :
         /\ Done(r1) /\ reqs[r1].route = "program-info"
         /\ Body(r1).error = NotInitializedMessage
         /\ Done(r2) /\ reqs[r2].route = "transfer" /\ ~reqs[r2].malformed
         /\ Body(r2).error = NotInitializedMessage

(* ---- C7 --------------------------------------------------------------- *)
MetaListCall == "initializeExtraAccountMetaList.rpc"

Index(calls, op) == CHOOSE i \in 1..Len(calls) : calls[i] = op

CreatedOk(r) ==
    /\ Done(r) /\ reqs[r].route = "create-token"
    /\ Has(r, "success") /\ Body(r).success

(* C7 as stated: create-token answers success:true with a mintAddress only *)
(* if the mint creation was confirmed and after it the                     *)
(* initializeExtraAccountMetaList call for that mint was confirmed.        *)
C7_AsStated ==
    \A r \in ReqIds :
        CreatedOk(r) => Has(r, "mintAddress") /\ r \in chainMints /\ r \in chainMetaLists

(* C7, amended: the claim holds of version 1: success:true with a          *)
(* mintAddress only after the mint creation and then the                   *)
(* initializeExtraAccountMetaList call for the same mint were confirmed;   *)
(* the second is never submitted before the first is confirmed; if the     *)
(* second fails the answer is 500 without a mintAddress while the mint     *)
(* stays on chain.  Version 2's createTokenMint makes no                   *)
(* initializeExtraAccountMetaList call: there success:true follows the     *)
(* confirmed mint creation alone.                                          *)
C7_CreateToken ==
    \A r \in ReqIds :
        reqs[r].route = "create-token" =>
            /\ CreatedOk(r) =>
                 /\ Has(r, "mintAddress") /\ Body(r).mintAddress = r
                 /\ r \in chainMints
                 /\ version = 1 => r \in chainMetaLists
                 /\ version = 2 => Count(reqs[r].calls, MetaListCall) = 0
            /\ Count(reqs[r].calls, MetaListCall) > 0 =>
                 /\ version = 1
                 /\ r \in chainMints
                 /\ Count(reqs[r].calls, "sendAndConfirm") = 1
                 /\ Index(reqs[r].calls, "sendAndConfirm") < Index(reqs[r].calls, MetaListCall)
            /\ r \in chainMetaLists => r \in chainMints
            /\ (Done(r) /\ Count(reqs[r].calls, MetaListCall) > 0 /\ SdkThrew(r)) =>
                 /\ Resp(r).status = 500 /\ ~Has(r, "mintAddress")
                 /\ r \in chainMints /\ r \notin chainMetaLists

(* version 1: one mint fully set up and answered, another whose meta list  *)
(* failed and which is left on chain                                       *)
C7_Witness ==
    /\ version = 1
    /\ \E r1, r2 \in ReqIds :
         /\ CreatedOk(r1) /\ r1 \in chainMetaLists
         /\ Done(r2) /\ reqs[r2].route = "create-token" /\ SdkThrew(r2)
         /\ reqs[r2].failedAt = 3 /\ r2 \in chainMints /\ Resp(r2).status = 500

(* ---- C8 --------------------------------------------------------------- *)
AtaCall == "getOrCreateAssociatedTokenAccount"

TransferSubmitted(r) ==
    /\ reqs[r].route = "transfer"
    /\ Count(reqs[r].calls, "sendAndConfirm") + Count(reqs[r].calls, "transfer") > 0

ListRoutes == {"token-balances", "transactions", "server-wallet-transactions"}

(* C8: a request has at most one SDK call outstanding, and once a call     *)
(* threw the request is answered without another call; transferTokens      *)
(* submits the transfer only after both associated token accounts were     *)
(* obtained; a token-balances or transactions request that fails part-way  *)
(* is answered 500 without a balances or transactions list.                *)
C8_AbortAtFirstFailure ==
    \A r \in ReqIds :
        /\ SdkThrew(r) => Done(r) /\ Len(reqs[r].calls) = reqs[r].failedAt
        /\ (~Done(r) /\ reqs[r].pc # "idle") => reqs[r].failedAt = -1
        /\ TransferSubmitted(r) =>
             /\ Len(reqs[r].calls) >= 3
             /\ reqs[r].calls[1] = AtaCall /\ reqs[r].calls[2] = AtaCall
             /\ reqs[r].failedAt \notin {1, 2}
             /\ \A i \in 1..2 : reqs[r].calls[i] \notin {"sendAndConfirm", "transfer"}
        /\ (Done(r) /\ reqs[r].route \in ListRoutes /\ SdkThrew(r)) =>
             /\ Resp(r).status = 500
             /\ ~Has(r, "balances") /\ ~Has(r, "transactions")
        /\ (Done(r) /\ reqs[r].route \in ListRoutes /\ ~Failed(r)) =>
             \/ Has(r, "balances") /\ Body(r).balances = reqs[r].list
             \/ Has(r, "transactions") /\ Body(r).transactions = reqs[r].list

(* a balances request and a transactions request each failed after an      *)
(* entry had already been collected                                        *)
C8_Witness ==
    \E r1, r2 \in ReqIds :
        /\ Done(r1) /\ reqs[r1].route = "token-balances" /\ SdkThrew(r1)
        /\ Len(reqs[r1].list) >= 1
        /\ Done(r2) /\ reqs[r2].route = "transactions" /\ SdkThrew(r2)
        /\ Len(reqs[r2].list) >= 1

(* ---- C9 --------------------------------------------------------------- *)
BadgeRequestWithBadKey(r) ==
    /\ Done(r) /\ ~reqs[r].malformed
    /\ BadgeKeyRejected(r)

StartsWith(message, prefix) ==
    /\ Len(message) >= Len(prefix)
    /\ SubSeq(message, 1, Len(prefix)) = prefix

(* C9 as stated (taking the service as constructed): issue-badge with a    *)
(* mintAddress or recipientAddress that is no valid public key is answered *)
(* with status 500 and an error                                            *)
(* beginning 'Invalid public key input: ', and no issueBadge rpc is        *)
(* submitted.                                                              *)
C9_AsStated ==
    \A r \in ReqIds :
        (BadgeRequestWithBadKey(r) /\ solanaService.defined) =>
            /\ Resp(r).status = 500
            /\ Has(r, "error") /\ StartsWith(Body(r).error, InvalidKeyPrefix)
            /\ Count(reqs[r].calls, "issueBadge.rpc") = 0

(* C9, amended: with the service constructed, version 1 answers such a     *)
(* request with status 500 and the error 'Invalid public key input: '      *)
(* followed by the SDK's message; version 2 answers 500 with the SDK's     *)
(* message alone; when the service is missing the answer is 500            *)
(* 'Backend service not initialized.'.  In every case no issueBadge rpc is *)
(* submitted, and an invalid mintAddress alone is enough for the refusal.  *)
C9_InvalidKey ==
    \A r \in ReqIds :
        BadgeRequestWithBadKey(r) =>
            /\ Resp(r).status = 500
            /\ Has(r, "error")
            /\ Count(reqs[r].calls, "issueBadge.rpc") = 0
            /\ (version = 1 /\ solanaService.defined) =>
                 /\ StartsWith(Body(r).error, InvalidKeyPrefix)
                 /\ Body(r).error = InvalidKeyPrefix \o PublicKeyErrorMessage
            /\ version = 2 => Body(r).error = PublicKeyErrorMessage
            /\ ~solanaService.defined => Body(r).error = NotInitializedMessage

(* version 1, service constructed: a request whose only bad key is the     *)
(* mintAddress was refused with the prefixed message                       *)
C9_Witness ==
    /\ version = 1 /\ solanaService.defined
    /\ \E r \in ReqIds :
         /\ BadgeRequestWithBadKey(r)
         /\ ~IsValidKey(reqs[r].a1) /\ IsValidKey(reqs[r].a2)
         /\ StartsWith(Body(r).error, InvalidKeyPrefix)

(* ---- C10 -------------------------------------------------------------- *)
(* C10: with SERVER_WALLET_SECRET_KEY unset, wallet-status answers with    *)
(* status 200 and the body                                                 *)
(* {connected:false, message:'SERVER_WALLET_SECRET_KEY not set.'}.         *)
C10_KeyNotSet ==
    \A r \in ReqIds :
        (env = "unset" /\ Done(r) /\ reqs[r].route = "wallet-status") =>
            /\ Resp(r).status = 200
            /\ DOMAIN Body(r) = {"connected", "message"}
            /\ ~Body(r).connected
            /\ Body(r).message = KeyNotSetMessage

(* ---- C11 -------------------------------------------------------------- *)
(* C11: no request is answered twice: on every path of every route handler *)
(* (the missing-service guard, success, the caught error) res.json or      *)
(* res.status(..).json runs at most once, and a request is finished        *)
(* exactly when it has run once.                                           *)
C11_AnsweredOnce ==
    \A r \in ReqIds :
        /\ reqs[r].nresp <= 1
        /\ Done(r) <=> reqs[r].nresp = 1
        /\ reqs[r].nresp = 0 => Resp(r) = NoResp
        /\ Done(r) => Resp(r) # NoResp

(* one request answered on the success path and one on the catch path,     *)
(* each exactly once                                                       *)
C11_Witness ==
    \E r1, r2 \in ReqIds :
        /\ Done(r1) /\ reqs[r1].route = "issue-badge" /\ ~Failed(r1)
        /\ Resp(r1).status = 200 /\ reqs[r1].nresp = 1
        /\ Done(r2) /\ reqs[r2].route = "create-token" /\ SdkThrew(r2)
        /\ Resp(r2).status = 500 /\ reqs[r2].nresp = 1

====
